---- MODULE Spec2Model ----
(***************************************************************************)
(* Order lifecycle and download-entitlement engine of digitalghar_backend. *)
(*                                                                         *)
(* Every HTTP handler is an async function: each `await` on the database   *)
(* or on redis is one atomic step, and between two awaits of one request   *)
(* any step of any other request may run.  A request occupies a slot of    *)
(* `req`; the slot holds the handler's position (pc), its inputs and its   *)
(* local variables.  The authenticate middleware reads only the user       *)
(* table, which no handler of the model writes, so it is folded into the   *)
(* step of the handler's first await.                                      *)
(***************************************************************************)
EXTENDS Integers, Sequences, FiniteSets, TLC

\* ------------------------------------------------------------------ bounds
MaxReq == 2
MaxOrders == 1
MaxTime == 1
MaxAdminLog == 2
MaxDownloads == 6
MaxFaults == 1

\* ------------------------------------------------------- program constants
DownloadLimit == 5
ExpiryDays == 7
NoTime == -1

NoUtr == "null"
NoUser == "nobody"
Admins == {"adm"}
Customers == {"u1", "u2"}
Users == Customers \cup Admins
\* Who calls the customer routes, and who calls the admin routes.
Callers == Customers \cup {NoUser}
AdminCallers == Admins \cup {"u2", NoUser}
Buyers == {"u1"}
Products == {"p1", "p2"}
OrderIds == 1..(MaxOrders + 1)
ItemIds == OrderIds \X Products
DownloadItems == OrderIds \X {"p1"}
UTRs == {"UTR123456", "UTR1"}

Role(u) == IF u \in Admins THEN "ADMIN" ELSE "USER"
SeedPrice(p) == IF p = "p1" THEN 149 ELSE 199
SeedTitle(p) == IF p = "p1" THEN "Kids Coloring Book - Animals"
                ELSE "Mathematics Worksheets - Grade 1-3"

VARIABLES products, carts, orders, items, downloadLog, adminLog, now, req, out

vars == <<products, carts, orders, items, downloadLog, adminLog, now, req, out>>
db == <<products, carts, orders, items, downloadLog, adminLog>>

\* ------------------------------------------------------------ request slots
Slots == 1..MaxReq
Nil == [nil |-> TRUE]
Idle == [kind |-> "idle", pc |-> "idle", caller |-> NoUser, arg |-> Nil, loc |-> Nil]
Running(kind, pc, caller, arg, loc) ==
    [kind |-> kind, pc |-> pc, caller |-> caller, arg |-> arg, loc |-> loc]
NoResp == [kind |-> "idle", caller |-> NoUser, arg |-> Nil, code |-> "none", n |-> 0]

\* res.status(..).json(..): the handler ends, its slot is free again and `out`
\* holds the response on its way to the client, with the request it answers.
\* The event loop runs its next callback once the response is handed over
\* (Deliver), so every handler step starts with `out` empty.
Respond(r, kind, caller, arg, code, n) ==
    /\ req' = [req EXCEPT ![r] = Idle]
    /\ out' = [kind |-> kind, caller |-> caller, arg |-> arg, code |-> code, n |-> n]
Reply(r, code, n) == Respond(r, req[r].kind, req[r].caller, req[r].arg, code, n)
Begin(r, run) == /\ req' = [req EXCEPT ![r] = run]
                 /\ UNCHANGED out
Goto(r, pc, loc) == /\ req' = [req EXCEPT ![r].pc = pc, ![r].loc = loc]
                    /\ UNCHANGED out

\* A new request takes the lowest free slot (slots are interchangeable).
CanStart(r) == /\ out = NoResp
               /\ req[r].pc = "idle"
               /\ \A q \in 1..(r - 1) : req[q].pc # "idle"
At(r, kind, pc) == out = NoResp /\ req[r].kind = kind /\ req[r].pc = pc

Deliver == /\ out # NoResp
           /\ out' = NoResp
           /\ UNCHANGED <<products, carts, orders, items, downloadLog, adminLog,
                          now, req>>

\* --------------------------------------------------------------- middleware
\* A valid bearer token whose user exists; otherwise 401.
authenticate(caller) == caller \in Users

\* ------------------------------------------------------------------- helpers
CartKey(u) == <<"user", u>>

\* Who asks for a cart: the user of the bearer token (none without a valid
\* token) and the session id of the x-session-id header or cookie (none).
NoSession == "none"
Sessions == {"s1"}
CartClients == (Buyers \cup {NoUser}) \X (Sessions \cup {NoSession})
\* The clients that are signed in and send no session id.
UserClients == Buyers \X {NoSession}

\* A bug that lets the session id win over the user.
getCartKeySessionFirst(user, session) ==
    IF session # NoSession THEN <<"session", session>>
    ELSE IF authenticate(user) THEN <<"user", user>>
    ELSE <<"session", "anonymous">>

\* req.user ? `cart:user:${req.user.id}` : `cart:session:${sessionId || 'anonymous'}`
getCartKey(user, session) ==
    IF authenticate(user) THEN <<"user", user>>
    ELSE <<"session", IF session # NoSession THEN session ELSE "anonymous">>

CartKeys == {CartKey(u) : u \in Buyers}
               \cup {getCartKey(c[1], c[2]) : c \in CartClients}
NoCart == [present |-> FALSE, ids |-> <<>>, exp |-> NoTime]

\* const CART_EXPIRY = 7 * 24 * 60 * 60: the time-to-live of a cart key, in
\* seconds; the clock of the model counts days.
CART_EXPIRY == 7 * 24 * 60 * 60
SecondsPerDay == 24 * 60 * 60

\* redis.setex(cartKey, CART_EXPIRY, JSON.stringify(productIds)) at time t:
\* the value, and the time at which the key expires.
setex(ids, t) ==
    [present |-> TRUE, ids |-> ids, exp |-> t + CART_EXPIRY \div SecondsPerDay]

\* A bug under which keys outlive their time-to-live.
expireNever(cs, t) == cs

\* The keys left at time t: a key is gone once its time-to-live has passed.
expire(cs, t) ==
    [k \in DOMAIN cs |->
        IF cs[k].present /\ cs[k].exp <= t THEN NoCart ELSE cs[k]]
SeqToSet(s) == {s[k] : k \in 1..Len(s)}

RECURSIVE SumPrices(_)
SumPrices(f) ==
    IF DOMAIN f = {} THEN 0
    ELSE LET p == CHOOSE x \in DOMAIN f : TRUE
         IN  f[p] + SumPrices([q \in (DOMAIN f) \ {p} |-> f[q]])

ItemsOf(o) == {i \in DOMAIN items : i[1] = o}

Init ==
    /\ products = [p \in Products |->
                     [title |-> SeedTitle(p), price |-> SeedPrice(p),
                      isActive |-> TRUE, downloadCount |-> 0]]
    /\ carts = [k \in CartKeys |-> NoCart]
    /\ orders = [o \in {} |-> 0]
    /\ items = [i \in {} |-> 0]
    /\ downloadLog = <<>>
    /\ adminLog = <<>>
    /\ now = 0
    /\ req = [r \in Slots |-> Idle]
    /\ out = NoResp

\* -------------------------------------------------------------------- clock
Tick == /\ out = NoResp
        /\ now < MaxTime
        /\ now' = now + 1
        /\ carts' = expire(carts, now')
        /\ UNCHANGED <<products, orders, items, downloadLog, adminLog, req, out>>

\* The days in which nothing is asked of the server: the clock moves on by the
\* lifetime of a download link.
Elapse == /\ out = NoResp
          /\ now <= MaxTime
          /\ now' = now + ExpiryDays
          /\ carts' = expire(carts, now')
          /\ UNCHANGED <<products, orders, items, downloadLog, adminLog, req, out>>

\* ------------------------------------------------- POST /cart/add (cart.routes)
\* The key of the request's cart, by the handler's getCartKey.
KeyOf(q) == getCartKey(q.caller, q.arg.session)

\* await prisma.product.findUnique: 404 unless the product exists and is active.
\* The model follows the cart traffic that leads to the MaxOrders checkouts.
StartCartAddFrom(r, clients) ==
    /\ CanStart(r)
    /\ Cardinality(DOMAIN orders) < MaxOrders
    /\ \E c \in clients, p \in Products :
         LET arg == [product |-> p, session |-> c[2]]
         IN  IF ~products[p].isActive
             THEN Respond(r, "cartadd", c[1], arg, "ProductNotFound", 0)
             ELSE Begin(r, Running("cartadd", "get", c[1], arg, Nil))
    /\ UNCHANGED <<db, now>>

StartCartAdd(r) == StartCartAddFrom(r, UserClients)

\* A bug that leaves out the includes() check.
CartAddGetUnchecked(r) ==
    /\ At(r, "cartadd", "get")
    /\ LET cart == carts[KeyOf(req[r])]
           ids  == IF cart.present THEN cart.ids ELSE <<>>
       IN  Goto(r, "set", [ids |-> Append(ids, req[r].arg.product)])
    /\ UNCHANGED <<db, now>>

\* await redis.get(cartKey); includes() check; push.
CartAddGet(r) ==
    /\ At(r, "cartadd", "get")
    /\ LET cart == carts[KeyOf(req[r])]
           ids  == IF cart.present THEN cart.ids ELSE <<>>
       IN  IF req[r].arg.product \in SeqToSet(ids)
           THEN Reply(r, "DuplicateItem", 0)
           ELSE Goto(r, "set", [ids |-> Append(ids, req[r].arg.product)])
    /\ UNCHANGED <<db, now>>

\* await redis.setex(cartKey, CART_EXPIRY, JSON.stringify(productIds))
CartAddSet(r) ==
    /\ At(r, "cartadd", "set")
    /\ carts' = [carts EXCEPT ![KeyOf(req[r])] =
                   setex(req[r].loc.ids, now)]
    /\ Reply(r, "Added", Len(req[r].loc.ids))
    /\ UNCHANGED <<products, orders, items, downloadLog, adminLog, now>>

\* ------------------------------------- DELETE /cart/remove/:productId
\* A bug that removes by position instead of by id.
withoutHead(ids, p) == IF ids = <<>> THEN <<>> ELSE Tail(ids)

\* productIds.filter(id => id !== productId)
RECURSIVE without(_, _)
without(ids, p) ==
    IF ids = <<>> THEN <<>>
    ELSE IF Head(ids) = p THEN without(Tail(ids), p)
    ELSE <<Head(ids)>> \o without(Tail(ids), p)

\* await redis.get(cartKey): 404 when the key is absent; filter.
StartCartRemoveFrom(r, clients) ==
    /\ CanStart(r)
    /\ Cardinality(DOMAIN orders) < MaxOrders
    /\ \E c \in clients, p \in Products :
         LET arg  == [product |-> p, session |-> c[2]]
             cart == carts[getCartKey(c[1], c[2])]
         IN  IF ~cart.present
             THEN Respond(r, "cartremove", c[1], arg, "CartEmpty", 0)
             ELSE Begin(r, Running("cartremove", "write", c[1], arg,
                                   [ids |-> without(cart.ids, p)]))
    /\ UNCHANGED <<db, now>>

StartCartRemove(r) == StartCartRemoveFrom(r, UserClients)

\* A bug that stores the empty list instead of deleting the key.
CartRemoveWriteKeepsKey(r) ==
    /\ At(r, "cartremove", "write")
    /\ carts' = [carts EXCEPT ![KeyOf(req[r])] =
                   setex(req[r].loc.ids, now)]
    /\ Reply(r, "Removed", Len(req[r].loc.ids))
    /\ UNCHANGED <<products, orders, items, downloadLog, adminLog, now>>

\* if (productIds.length === 0) await redis.del(cartKey)
\* else await redis.setex(cartKey, CART_EXPIRY, ..); res.json
CartRemoveWrite(r) ==
    /\ At(r, "cartremove", "write")
    /\ carts' = [carts EXCEPT ![KeyOf(req[r])] =
                   IF Len(req[r].loc.ids) = 0 THEN NoCart
                   ELSE setex(req[r].loc.ids, now)]
    /\ Reply(r, "Removed", Len(req[r].loc.ids))
    /\ UNCHANGED <<products, orders, items, downloadLog, adminLog, now>>

\* ------------------------------------------------------ DELETE /cart/clear
\* await redis.del(cartKey); res.json
ClearCartFrom(r, clients) ==
    /\ CanStart(r)
    /\ Cardinality(DOMAIN orders) < MaxOrders
    /\ \E c \in clients :
         /\ carts' = [carts EXCEPT ![getCartKey(c[1], c[2])] = NoCart]
         /\ Respond(r, "cartclear", c[1], [session |-> c[2]], "Cleared", 0)
    /\ UNCHANGED <<products, orders, items, downloadLog, adminLog, now>>

ClearCart(r) == ClearCartFrom(r, UserClients)

\* ---------------------------------------------------------------- GET /cart
\* res.json({ items, total }): the response carries the products found.
RespondCart(r, caller, arg, found, total) ==
    /\ req' = [req EXCEPT ![r] = Idle]
    /\ out' = [kind |-> "cartget", caller |-> caller, arg |-> arg, code |-> "Cart",
               n |-> total, items |-> found]

\* await redis.get(cartKey): an absent key and "[]" give the empty cart.
StartCartGetFrom(r, clients) ==
    /\ CanStart(r)
    /\ Cardinality(DOMAIN orders) < MaxOrders
    /\ \E c \in clients :
         LET arg  == [session |-> c[2]]
             cart == carts[getCartKey(c[1], c[2])]
         IN  IF ~cart.present \/ Len(cart.ids) = 0
             THEN RespondCart(r, c[1], arg, {}, 0)
             ELSE Begin(r, Running("cartget", "find", c[1], arg,
                                   [ids |-> cart.ids]))
    /\ UNCHANGED <<db, now>>

StartCartGet(r) == StartCartGetFrom(r, UserClients)

\* ------------------------------------------------ POST /orders (create order)
\* Orders in the ledger plus the creations in flight.
OrdersBegun == Cardinality(DOMAIN orders)
                 + Cardinality({q \in Slots : req[q].kind = "create"})

\* authenticate; await redis.get(cartKey): 400 when the key is absent or "[]".
\* The model follows the first n checkouts.
StartCreateOrderUpTo(r, n) ==
    /\ CanStart(r)
    /\ OrdersBegun < n
    /\ \E caller \in Buyers \cup {NoUser} :
         IF ~authenticate(caller)
         THEN Respond(r, "create", caller, Nil, "Unauthorized", 0)
         ELSE LET cart == carts[CartKey(caller)]
              IN  IF ~cart.present \/ Len(cart.ids) = 0
                  THEN Respond(r, "create", caller, Nil, "EmptyCart", 0)
                  ELSE Begin(r, Running("create", "find", caller, Nil,
                                        [ids |-> cart.ids]))
    /\ UNCHANGED <<db, now>>

StartCreateOrder(r) == StartCreateOrderUpTo(r, MaxOrders)

\* A bug that drops the isActive filter of the query.
findProductsAnyState(ids) == [p \in SeqToSet(ids) |-> products[p].price]

\* prisma.product.findMany({ id: { in: productIds }, isActive: true })
findActiveProducts(ids) ==
    LET found == {p \in SeqToSet(ids) : products[p].isActive}
    IN  [p \in found |-> products[p].price]

CreateFindProducts(r) ==
    /\ At(r, "create", "find")
    /\ LET found == findActiveProducts(req[r].loc.ids)
       IN  IF DOMAIN found = {}
           THEN Reply(r, "NoValidProducts", 0)
           ELSE Goto(r, "persist",
                     [found |-> found,
                      titles |-> [p \in DOMAIN found |-> products[p].title]])
    /\ UNCHANGED <<db, now>>

\* GET /cart: await prisma.product.findMany (active only); total; res.json
CartGetFind(r) ==
    /\ At(r, "cartget", "find")
    /\ LET found == findActiveProducts(req[r].loc.ids)
       IN  RespondCart(r, req[r].caller, req[r].arg, DOMAIN found,
                       SumPrices(found))
    /\ UNCHANGED <<db, now>>

\* A bug that keeps the price of one product instead of accumulating.
totalAmountLast(found) == found[CHOOSE p \in DOMAIN found : TRUE]

\* products.reduce((sum, p) => sum + Number(p.price), 0)
totalAmountOf(found) == SumPrices(found)

\* A bug that prices the items from the catalogue as it was first published.
newItemsListPrice(oid, found, titles) ==
    [i \in {<<oid, p>> : p \in DOMAIN found} |->
       [productId |-> i[2], productTitle |-> titles[i[2]],
        productPrice |-> SeedPrice(i[2]), downloadCount |-> 0,
        downloadLimit |-> DownloadLimit, expiresAt |-> NoTime,
        downloadUrl |-> FALSE]]

\* products.map(p => ({ productId, productTitle, productPrice, downloadLimit: 5 }))
newItems(oid, found, titles) ==
    [i \in {<<oid, p>> : p \in DOMAIN found} |->
       [productId |-> i[2], productTitle |-> titles[i[2]],
        productPrice |-> found[i[2]], downloadCount |-> 0,
        downloadLimit |-> DownloadLimit, expiresAt |-> NoTime,
        downloadUrl |-> FALSE]]

\* The order row of prisma.order.create; the fields the handler does not pass
\* take the column defaults.
newOrder(userId, found) ==
    [userId |-> userId, totalAmount |-> totalAmountOf(found),
     paymentStatus |-> "PENDING", orderStatus |-> "PENDING",
     utrNumber |-> NoUtr, paidAt |-> NoTime]

\* A bug that empties the cart before the order is known to be stored.
CreatePersistClearing(r) ==
    /\ At(r, "create", "persist")
    /\ carts' = [carts EXCEPT ![CartKey(req[r].caller)] = NoCart]
    /\ \/ LET oid == Cardinality(DOMAIN orders) + 1
          IN  /\ orders' = orders @@ (oid :> newOrder(req[r].caller, req[r].loc.found))
              /\ items' = items @@ newItems(oid, req[r].loc.found,
                                               req[r].loc.titles)
              /\ Goto(r, "clear", [order |-> oid])
       \/ /\ Reply(r, "ServerError", 0)
          /\ UNCHANGED <<orders, items>>
    /\ UNCHANGED <<products, downloadLog, adminLog, now>>

\* await prisma.order.create (order and items in one nested write), then the QR
\* code of the payment request is rendered (no shared state).  A rejected write
\* (the unique order number collides, the database is down) lands in the catch.
CreatePersist(r) ==
    /\ At(r, "create", "persist")
    /\ \/ LET oid == Cardinality(DOMAIN orders) + 1
          IN  /\ orders' = orders @@ (oid :> newOrder(req[r].caller, req[r].loc.found))
              /\ items' = items @@ newItems(oid, req[r].loc.found,
                                               req[r].loc.titles)
              /\ Goto(r, "clear", [order |-> oid])
       \/ /\ Reply(r, "ServerError", 0)
          /\ UNCHANGED <<orders, items>>
    /\ UNCHANGED <<products, carts, downloadLog, adminLog, now>>

\* await generateUPIQRCode(..) or await redis.del(cartKey) rejects after the
\* order was stored: the catch answers 500.
CreateFailsAfterPersist(r) ==
    /\ At(r, "create", "clear")
    /\ Reply(r, "ServerError", 0)
    /\ UNCHANGED <<db, now>>

\* await redis.del(cartKey); res.status(201)
CreateClearCart(r) ==
    /\ At(r, "create", "clear")
    /\ carts' = [carts EXCEPT ![CartKey(req[r].caller)] = NoCart]
    /\ Reply(r, "Created", req[r].loc.order)
    /\ UNCHANGED <<products, orders, items, downloadLog, adminLog, now>>

\* --------------------------------------- POST /orders/:orderId/submit-utr
\* z.string().min(5).max(50)
UtrLen(u) == Len(u)

\* A bug that excludes the two ends of the range.
submitUtrSchemaExclusive(u) == UtrLen(u) > 5 /\ UtrLen(u) < 50

submitUtrSchema(u) == UtrLen(u) >= 5 /\ UtrLen(u) <= 50

\* Payment references at the two ends of the accepted lengths, and the
\* nearest ones outside: 4, 5, 50 and 51 characters.
BoundaryUTRs == {"UTR1", "UTR12",
                 "UTR12345678901234567890123456789012345678901234567",
                 "UTR123456789012345678901234567890123456789012345678"}

\* A bug that drops the payment-status filter of the lookup.
findPendingOrderAnyStatus(oid, userId) ==
    oid \in DOMAIN orders /\ orders[oid].userId = userId

\* prisma.order.findFirst({ where: { id, userId, paymentStatus: 'PENDING' } })
findPendingOrder(oid, userId) ==
    /\ oid \in DOMAIN orders
    /\ orders[oid].userId = userId
    /\ orders[oid].paymentStatus = "PENDING"

StartSubmitWith(r, utrs) ==
    /\ CanStart(r)
    /\ \E caller \in Callers, oid \in OrderIds, utr \in utrs :
         LET arg == [order |-> oid, utr |-> utr]
         IN  IF ~authenticate(caller)
             THEN Respond(r, "submit", caller, arg, "Unauthorized", 0)
             ELSE IF ~submitUtrSchema(utr)
             THEN Respond(r, "submit", caller, arg, "ValidationError", 0)
             ELSE IF ~findPendingOrder(oid, caller)
             THEN Respond(r, "submit", caller, arg, "OrderNotFound", 0)
             ELSE Begin(r, Running("submit", "update", caller, arg, Nil))
    /\ UNCHANGED <<db, now>>

StartSubmit(r) == StartSubmitWith(r, UTRs)

\* prisma.order.update({ where: { id }, data: { utrNumber, paymentStatus: 'SUBMITTED' } })
submitWrite(order, utr) ==
    [order EXCEPT !.utrNumber = utr, !.paymentStatus = "SUBMITTED"]

SubmitUpdate(r) ==
    /\ At(r, "submit", "update")
    /\ orders' = [orders EXCEPT ![req[r].arg.order] = submitWrite(@, req[r].arg.utr)]
    /\ Reply(r, "Submitted", 0)
    /\ UNCHANGED <<products, carts, items, downloadLog, adminLog, now>>

\* ------------------------------------------------- GET /orders/:orderId
\* A bug that drops the owner filter of the lookup.
findOwnOrderById(oid, userId) == oid \in DOMAIN orders

\* prisma.order.findFirst({ where: { id: orderId, userId } })
findOwnOrder(oid, userId) ==
    oid \in DOMAIN orders /\ orders[oid].userId = userId

\* payment: null unless the order is PENDING.
NoPayment == [none |-> TRUE]

\* A bug that asks for the wrong status.
paymentRequestUnlessVerified(order, oid) ==
    IF order.paymentStatus # "VERIFIED"
    THEN [amount |-> order.totalAmount, orderId |-> oid] ELSE NoPayment

\* order.paymentStatus === 'PENDING' ? { upiId, amount: order.totalAmount,
\* qrCode } : null, the QR code encoding the amount and the order number (the
\* order's id stands for its number: both are set once, at creation).
paymentRequest(order, oid) ==
    IF order.paymentStatus = "PENDING"
    THEN [amount |-> order.totalAmount, orderId |-> oid] ELSE NoPayment

\* res.json({ order, payment })
RespondOrder(r, caller, arg, order) ==
    /\ req' = [req EXCEPT ![r] = Idle]
    /\ out' = [kind |-> "detail", caller |-> caller, arg |-> arg,
               code |-> order.paymentStatus, n |-> order.totalAmount,
               payment |-> paymentRequest(order, arg.order)]

\* authenticate; await findFirst: 404 on a miss.  On a hit the response is
\* built from the order that was read (for a PENDING order after the QR code
\* of the payment request is rendered, which touches no shared state), so the
\* handler is one step.
GetOrder(r) ==
    /\ CanStart(r)
    /\ \E caller \in Callers, oid \in OrderIds :
         LET arg == [order |-> oid]
         IN  IF ~authenticate(caller)
             THEN Respond(r, "detail", caller, arg, "Unauthorized", 0)
             ELSE IF ~findOwnOrder(oid, caller)
             THEN Respond(r, "detail", caller, arg, "OrderNotFound", 0)
             ELSE RespondOrder(r, caller, arg, orders[oid])
    /\ UNCHANGED <<db, now>>

\* ------------------------------------------- POST /admin/orders/:id/verify
\* Admin-log entries written plus the admin actions in flight.
AdminBegun == Len(adminLog)
                + Cardinality({q \in Slots : req[q].kind \in {"verify", "reject"}})

\* A bug that lets every authenticated user through.
requireAdminAnyUser(caller) == caller \in Users

\* if (!req.user || req.user.role !== 'ADMIN') return 403
requireAdmin(caller) == caller \in Users /\ Role(caller) = "ADMIN"

\* router.use(authenticate, requireAdmin)
adminGate(caller) == IF ~authenticate(caller) THEN "Unauthorized"
                     ELSE IF ~requireAdmin(caller) THEN "Forbidden"
                     ELSE "next"

\* if (order.paymentStatus === 'VERIFIED') return 400
alreadyVerified(order) == order.paymentStatus = "VERIFIED"

\* The admin gate; await prisma.order.findUnique with the order's items; the
\* two checks; paidAt: new Date() is evaluated when the update is issued.
StartVerify(r) ==
    /\ CanStart(r)
    /\ AdminBegun < MaxAdminLog
    /\ \E caller \in AdminCallers, oid \in OrderIds :
         LET arg == [order |-> oid]
         IN  IF adminGate(caller) # "next"
             THEN Respond(r, "verify", caller, arg, adminGate(caller), 0)
             ELSE IF oid \notin DOMAIN orders
             THEN Respond(r, "verify", caller, arg, "OrderNotFound", 0)
             ELSE IF alreadyVerified(orders[oid])
             THEN Respond(r, "verify", caller, arg, "AlreadyVerified", 0)
             ELSE Begin(r, Running("verify", "update", caller, arg,
                                   [items |-> ItemsOf(oid), paidAt |-> now,
                                    expiresAt |-> NoTime]))
    /\ UNCHANGED <<db, now>>

\* data: { paymentStatus: 'VERIFIED', orderStatus: 'COMPLETED', paidAt }
verifyWrite(order, paidAt) ==
    [order EXCEPT !.paymentStatus = "VERIFIED", !.orderStatus = "COMPLETED",
                  !.paidAt = paidAt]

\* A bug that catches the failure of an item update and carries on.
VerifyItemFailsIgnored(r) ==
    /\ At(r, "verify", "items")
    /\ \E i \in req[r].loc.items :
         Goto(r, "items", [req[r].loc EXCEPT !.items = @ \ {i}])
    /\ UNCHANGED <<db, now>>

\* Promise.all rejects as soon as one item update rejects: the catch answers
\* 500.  The order is VERIFIED by then, the admin log is not written, and the
\* items whose update has not committed stay as they were (an update that
\* commits after the answer leaves the same rows as one that commits before).
VerifyItemFails(r) ==
    /\ At(r, "verify", "items")
    /\ req[r].loc.items # {}
    /\ Reply(r, "ServerError", 0)
    /\ UNCHANGED <<db, now>>

\* A bug that sets the day of the month instead of adding to it.
expiryFromSetDate(t) == ExpiryDays

\* expiresAt = new Date(); expiresAt.setDate(expiresAt.getDate() + 7)
expiryFrom(t) == t + ExpiryDays

\* await prisma.order.update; on return the expiry is computed from the clock.
VerifyUpdateOrder(r) ==
    /\ At(r, "verify", "update")
    /\ orders' = [orders EXCEPT ![req[r].arg.order] =
                    verifyWrite(@, req[r].loc.paidAt)]
    /\ Goto(r, "items", [req[r].loc EXCEPT !.expiresAt = expiryFrom(now)])
    /\ UNCHANGED <<products, carts, items, downloadLog, adminLog, now>>

\* A bug that starts the item's counter afresh on activation.
activateResetting(item, expiresAt) ==
    [item EXCEPT !.expiresAt = expiresAt, !.downloadUrl = TRUE,
                 !.downloadCount = 0]

\* data: { downloadUrl: getSignedDownloadUrl(..), expiresAt }
activate(item, expiresAt) ==
    [item EXCEPT !.expiresAt = expiresAt, !.downloadUrl = TRUE]

\* Promise.all(order.items.map(item => prisma.orderItem.update(..))): one
\* independent write per item, committed in any order.
VerifyUpdateItem(r) ==
    /\ At(r, "verify", "items")
    /\ \E i \in req[r].loc.items :
         /\ items' = [items EXCEPT ![i] = activate(@, req[r].loc.expiresAt)]
         /\ Goto(r, "items", [req[r].loc EXCEPT !.items = @ \ {i}])
    /\ UNCHANGED <<products, carts, orders, downloadLog, adminLog, now>>

\* await prisma.adminLog.create({ action: 'verified_payment' }); res.json
VerifyLog(r) ==
    /\ At(r, "verify", "items")
    /\ req[r].loc.items = {}
    /\ adminLog' = Append(adminLog, [adminId |-> req[r].caller,
                                     action |-> "verified_payment",
                                     entityId |-> req[r].arg.order])
    /\ Reply(r, "Verified", 0)
    /\ UNCHANGED <<products, carts, orders, items, downloadLog, now>>

\* ---------------------------------------------- PUT /admin/products/:id
\* The fields an admin sends: a new price, or the product switched off or on.
PriceInputs == {99}
ProductUpdates == [price : PriceInputs] \cup [isActive : BOOLEAN]
TitleInputs == {"Animals to colour"}
\* The updates of the fields an order item takes a copy of or is reached by.
SnapshotUpdates == ProductUpdates \cup [title : TitleInputs]

\* data: updateData (the fields sent, the others stay)
updateProduct(product, data) ==
    IF "price" \in DOMAIN data THEN [product EXCEPT !.price = data.price]
    ELSE IF "title" \in DOMAIN data THEN [product EXCEPT !.title = data.title]
    ELSE [product EXCEPT !.isActive = data.isActive]

\* The admin gate; await prisma.product.findUnique (404 on a miss).
\* updates are the bodies sent; open bounds the catalogue traffic followed.
StartProductUpdateOf(r, updates, open) ==
    /\ CanStart(r)
    /\ open
    /\ \E caller \in AdminCallers, p \in Products, data \in updates :
         LET arg == [product |-> p, data |-> data]
         IN  IF adminGate(caller) # "next"
             THEN Respond(r, "product", caller, arg, adminGate(caller), 0)
             ELSE IF p \notin DOMAIN products
             THEN Respond(r, "product", caller, arg, "ProductNotFound", 0)
             ELSE Begin(r, Running("product", "update", caller, arg, Nil))
    /\ UNCHANGED <<db, now>>

\* The model follows the updates that precede the MaxOrders checkouts.
StartProductUpdate(r) ==
    StartProductUpdateOf(r, ProductUpdates, Cardinality(DOMAIN orders) < MaxOrders)

\* A bug that carries the new product data into the order items sold.
ProductUpdateRepricing(r) ==
    /\ At(r, "product", "update")
    /\ products' = [products EXCEPT ![req[r].arg.product] =
                      updateProduct(@, req[r].arg.data)]
    /\ items' = [i \in DOMAIN items |->
                   IF items[i].productId = req[r].arg.product
                   THEN [items[i] EXCEPT
                           !.productPrice = products'[req[r].arg.product].price]
                   ELSE items[i]]
    /\ Reply(r, "Updated", 0)
    /\ UNCHANGED <<carts, orders, downloadLog, adminLog, now>>

\* await prisma.product.update({ where: { id }, data: updateData }); res.json
ProductUpdate(r) ==
    /\ At(r, "product", "update")
    /\ products' = [products EXCEPT ![req[r].arg.product] =
                      updateProduct(@, req[r].arg.data)]
    /\ Reply(r, "Updated", 0)
    /\ UNCHANGED <<carts, orders, items, downloadLog, adminLog, now>>

\* ------------------------------------------- POST /admin/orders/:id/reject
\* A bug that forgets the order status.
rejectWritePaymentOnly(order) == [order EXCEPT !.paymentStatus = "FAILED"]

\* data: { paymentStatus: 'FAILED', orderStatus: 'CANCELLED' }
rejectWrite(order) ==
    [order EXCEPT !.paymentStatus = "FAILED", !.orderStatus = "CANCELLED"]

\* The admin gate; await prisma.order.update({ where: { id } }), which throws
\* on a missing record: the catch turns that into a 500.
StartReject(r) ==
    /\ CanStart(r)
    /\ AdminBegun < MaxAdminLog
    /\ \E caller \in AdminCallers, oid \in OrderIds :
         LET arg == [order |-> oid]
         IN  IF adminGate(caller) # "next"
             THEN /\ Respond(r, "reject", caller, arg, adminGate(caller), 0)
                  /\ UNCHANGED orders
             ELSE IF oid \notin DOMAIN orders
             THEN /\ Respond(r, "reject", caller, arg, "ServerError", 0)
                  /\ UNCHANGED orders
             ELSE /\ orders' = [orders EXCEPT ![oid] = rejectWrite(@)]
                  /\ Begin(r, Running("reject", "log", caller, arg, Nil))
    /\ UNCHANGED <<products, carts, items, downloadLog, adminLog, now>>

\* await prisma.adminLog.create({ action: 'rejected_payment' }); res.json
RejectLog(r) ==
    /\ At(r, "reject", "log")
    /\ adminLog' = Append(adminLog, [adminId |-> req[r].caller,
                                     action |-> "rejected_payment",
                                     entityId |-> req[r].arg.order])
    /\ Reply(r, "Rejected", 0)
    /\ UNCHANGED <<products, carts, orders, items, downloadLog, now>>

\* ------------------------------------------ GET /orders/download/:orderItemId
\* Downloads granted plus the grants in flight.
DownloadsBegun == Len(downloadLog)
                    + Cardinality({q \in Slots : req[q].kind = "download"})

\* A bug that drops the payment-status filter of the lookup.
findOrderItemAnyStatus(iid, userId) ==
    iid \in DOMAIN items /\ orders[iid[1]].userId = userId

\* prisma.orderItem.findFirst({ where: { id, order: { userId, paymentStatus: 'VERIFIED' } } })
findOrderItem(iid, userId) ==
    /\ iid \in DOMAIN items
    /\ orders[iid[1]].userId = userId
    /\ orders[iid[1]].paymentStatus = "VERIFIED"

StartDownload(r) ==
    /\ CanStart(r)
    /\ DownloadsBegun < MaxDownloads
    /\ \E caller \in Callers, iid \in DownloadItems :
         LET arg == [item |-> iid]
         IN  IF ~authenticate(caller)
             THEN Respond(r, "download", caller, arg, "Unauthorized", 0)
             ELSE IF ~findOrderItem(iid, caller)
             THEN Respond(r, "download", caller, arg, "NotAvailable", 0)
             ELSE Begin(r, Running("download", "check", caller, arg,
                                   [item |-> items[iid]]))
    /\ UNCHANGED <<db, now>>

\* if (orderItem.downloadCount >= orderItem.downloadLimit) return 403
limitReached(item) == item.downloadCount >= item.downloadLimit

\* A bug that turns the comparison around.
linkExpiredReversed(item, t) == item.expiresAt # NoTime /\ t < item.expiresAt

\* if (orderItem.expiresAt && new Date() > orderItem.expiresAt) return 403
linkExpired(item, t) == item.expiresAt # NoTime /\ t > item.expiresAt

\* The checks on the item read; then the signed URL is built and Promise.all
\* issues the three writes.
DownloadCheck(r) ==
    /\ At(r, "download", "check")
    /\ LET item == req[r].loc.item
       IN  IF limitReached(item) THEN Reply(r, "LimitReached", 0)
           ELSE IF linkExpired(item, now) THEN Reply(r, "LinkExpired", 0)
           ELSE Goto(r, "write", req[r].loc)
    /\ UNCHANGED <<db, now>>

\* data: { downloadCount: { increment: 1 } }
incrementCount(rec) == [rec EXCEPT !.downloadCount = @ + 1]

\* remainingDownloads: orderItem.downloadLimit - orderItem.downloadCount - 1
remainingDownloads(item) == item.downloadLimit - item.downloadCount - 1

\* await Promise.all([orderItem.update, downloadLog.create, product.update]);
\* res.json.  The three writes touch three different records, and no handler
\* reads the download log or the product counter, so the order in which they
\* commit cannot be observed: they commit in one step.
DownloadWrite(r) ==
    /\ At(r, "download", "write")
    /\ LET iid  == req[r].arg.item
           item == req[r].loc.item
       IN  /\ items' = [items EXCEPT ![iid] = incrementCount(@)]
           /\ downloadLog' = Append(downloadLog,
                                    [userId |-> req[r].caller,
                                     orderItemId |-> iid,
                                     productId |-> item.productId])
           /\ products' = [products EXCEPT ![item.productId] = incrementCount(@)]
           /\ Reply(r, "Url", remainingDownloads(item))
    /\ UNCHANGED <<carts, orders, adminLog, now>>

\* The three writes of Promise.all; one that the database rejects makes
\* Promise.all reject and the catch answer 500, while the others commit or not.
DownloadWrites == {"item", "log", "product"}
Gap(a, b) == IF a > b THEN a - b ELSE b - a

DownloadWriteFails(r) ==
    /\ At(r, "download", "write")
    /\ \E done \in (SUBSET DownloadWrites) \ {DownloadWrites} :
         LET iid  == req[r].arg.item
             item == req[r].loc.item
             pid  == item.productId
             its  == IF "item" \in done
                     THEN [items EXCEPT ![iid] = incrementCount(@)] ELSE items
             log  == IF "log" \in done
                     THEN Append(downloadLog, [userId |-> req[r].caller,
                                               orderItemId |-> iid,
                                               productId |-> pid])
                     ELSE downloadLog
             prs  == IF "product" \in done
                     THEN [products EXCEPT ![pid] = incrementCount(@)]
                     ELSE products
         IN  /\ Gap(its[iid].downloadCount, Len(log)) <= MaxFaults
             /\ Gap(prs[pid].downloadCount, Len(log)) <= MaxFaults
             /\ items' = its /\ downloadLog' = log /\ products' = prs
    /\ Reply(r, "ServerError", 0)
    /\ UNCHANGED <<carts, orders, adminLog, now>>

\* ------------------------------------------------------------ specification
Ledger(r) ==
    \/ StartCartAdd(r) \/ CartAddGet(r) \/ CartAddSet(r)
    \/ StartCreateOrder(r) \/ CreateFindProducts(r) \/ CreatePersist(r)
    \/ CreateClearCart(r)
    \/ StartSubmit(r) \/ SubmitUpdate(r)
    \/ StartVerify(r) \/ VerifyUpdateOrder(r) \/ VerifyUpdateItem(r)
    \/ VerifyLog(r)
    \/ StartReject(r) \/ RejectLog(r)

Gate(r) == StartDownload(r) \/ DownloadCheck(r) \/ DownloadWrite(r)

\* Every handler, with the requests served at one instant of the clock.
Next == Deliver \/ \E r \in Slots : Ledger(r) \/ Gate(r)

Spec == Init /\ [][Next]_vars

\* The order ledger with a running clock.
NextClock == Tick \/ Deliver \/ \E r \in Slots : Ledger(r)

SpecClock == Init /\ [][NextClock]_vars

\* A purchase that is verified and downloaded from while the days pass.
Checkout(r) ==
    \/ StartCartAdd(r) \/ CartAddGet(r) \/ CartAddSet(r)
    \/ StartCreateOrder(r) \/ CreateFindProducts(r) \/ CreatePersist(r)
    \/ CreateClearCart(r)

Verification(r) ==
    \/ StartVerify(r) \/ VerifyUpdateOrder(r) \/ VerifyUpdateItem(r)
    \/ VerifyLog(r)

NextExpiry ==
    Tick \/ Elapse \/ Deliver
      \/ \E r \in Slots : Checkout(r) \/ Verification(r) \/ Gate(r)

SpecExpiry == Init /\ [][NextExpiry]_vars

\* What a customer can ask about orders: submit, detail and download, on the
\* orders that checkout and verify produce.
Submission(r) == StartSubmit(r) \/ SubmitUpdate(r)

NextPrivacy ==
    Deliver \/ \E r \in Slots : \/ Checkout(r) \/ Submission(r) \/ Verification(r)
                                \/ GetOrder(r) \/ Gate(r)

SpecPrivacy == Init /\ [][NextPrivacy]_vars

\* The cart and the catalogue up to checkout.
CartOps(r) ==
    \/ StartCartRemove(r) \/ CartRemoveWrite(r) \/ ClearCart(r)
    \/ StartCartGet(r) \/ CartGetFind(r)

Catalogue(r) == StartProductUpdate(r) \/ ProductUpdate(r)

NextCatalogue ==
    Deliver \/ \E r \in Slots : Checkout(r) \/ CartOps(r) \/ Catalogue(r)

SpecCatalogue == Init /\ [][NextCatalogue]_vars

\* Calls that never overlap: each is answered before the next is made.
NextCartSeq ==
    \/ Deliver
    \/ StartCartAdd(1) \/ CartAddGet(1) \/ CartAddSet(1)
    \/ StartCartRemove(1) \/ CartRemoveWrite(1) \/ ClearCart(1)
    \/ StartCartGet(1) \/ CartGetFind(1)
    \/ StartProductUpdate(1) \/ ProductUpdate(1)

SpecCartSeq == Init /\ [][NextCartSeq]_vars

\* The cart routes called by every kind of client, and the checkout, one
\* request at a time.
NextOwners ==
    \/ Deliver
    \/ StartCartAddFrom(1, CartClients) \/ CartAddGet(1) \/ CartAddSet(1)
    \/ StartCartRemoveFrom(1, CartClients) \/ CartRemoveWrite(1)
    \/ ClearCartFrom(1, CartClients)
    \/ StartCartGetFrom(1, CartClients) \/ CartGetFind(1)
    \/ StartCreateOrder(1) \/ CreateFindProducts(1) \/ CreatePersist(1)
    \/ CreateClearCart(1)

SpecOwners == Init /\ [][NextOwners]_vars

\* The cart routes and the checkout while time passes.
NextTtl ==
    \/ Tick \/ Elapse \/ Deliver
    \/ \E r \in Slots :
         \/ Checkout(r)
         \/ StartCartRemove(r) \/ CartRemoveWrite(r)
         \/ StartCartGet(r) \/ CartGetFind(r)

SpecTtl == Init /\ [][NextTtl]_vars

\* Orders bought, verified and downloaded while the catalogue is edited: the
\* shop's requests one at a time, each overlapped by catalogue updates.
NextSnapshot ==
    \/ Deliver
    \/ Checkout(1) \/ Verification(1) \/ Gate(1)
    \/ \E r \in Slots :
         StartProductUpdateOf(r, SnapshotUpdates, TRUE) \/ ProductUpdate(r)

SpecSnapshot == Init /\ [][NextSnapshot]_vars

\* Checkouts, and submits of payment references of the boundary lengths.
NextUtr ==
    Deliver \/ \E r \in Slots :
                 Checkout(r) \/ StartSubmitWith(r, BoundaryUTRs) \/ SubmitUpdate(r)

SpecUtr == Init /\ [][NextUtr]_vars

\* A cart filled and checked out, by requests that may overlap, one checkout
\* more than elsewhere.
NextDouble ==
    Deliver \/ \E r \in Slots :
                 \/ StartCartAdd(r) \/ CartAddGet(r) \/ CartAddSet(r)
                 \/ StartCreateOrderUpTo(r, MaxOrders + 1)
                 \/ CreateFindProducts(r) \/ CreatePersist(r)
                 \/ CreateClearCart(r)

SpecDouble == Init /\ [][NextDouble]_vars

\* Adds and removes on the carts, by requests that may overlap.
NextCartRace ==
    Deliver \/ \E r \in Slots :
                 \/ StartCartAdd(r) \/ CartAddGet(r) \/ CartAddSet(r)
                 \/ StartCartRemove(r) \/ CartRemoveWrite(r)

SpecCartRace == Init /\ [][NextCartRace]_vars

\* Checkouts that may fail after the order is stored, and be tried again.
NextRetry == NextDouble \/ \E r \in Slots : CreateFailsAfterPersist(r)

SpecRetry == Init /\ [][NextRetry]_vars

\* A purchase verified and downloaded from, on a database that may reject a
\* write.
NextFaults ==
    Deliver \/ \E r \in Slots : \/ Checkout(r) \/ Verification(r) \/ Gate(r)
                                \/ VerifyItemFails(r) \/ DownloadWriteFails(r)

SpecFaults == Init /\ [][NextFaults]_vars

\* ------------------------------------------------------------------ claims
Status(o) == orders[o].paymentStatus
IsAdmin(c) == c \in Admins
\* This step sends a response (`out` is empty before every handler step).
Answers(kind) == out = NoResp /\ out' # NoResp /\ out'.kind = kind
\* ... and the request was answered by the handler's first step.
AnswersAtOnce(kind) == Answers(kind) /\ req' = req
\* Slot r starts to run a handler of this kind in this step.
Begins(r, kind) == req[r].kind = "idle" /\ req'[r].kind = kind
\* Slot r runs a handler of this kind and this step is one of its steps.
StepOf(r, kind) == (req[r].kind = kind \/ req'[r].kind = kind) /\ req'[r] # req[r]

\* C1: the downloadCount of an order item never exceeds its downloadLimit,
\* whatever the interleaving of the download requests for it.
C1_CountWithinLimit ==
    \A i \in DOMAIN items : items[i].downloadCount <= items[i].downloadLimit

\* C2: VERIFIED is terminal: no step changes the paymentStatus of an order that
\* is VERIFIED.
C2_VerifiedIsTerminal ==
    [][\A o \in DOMAIN orders :
         Status(o) = "VERIFIED" => orders'[o].paymentStatus = "VERIFIED"]_vars

\* C3: FAILED is terminal: no step changes the paymentStatus of an order that
\* is FAILED.
C3_FailedIsTerminal ==
    [][\A o \in DOMAIN orders :
         Status(o) = "FAILED" => orders'[o].paymentStatus = "FAILED"]_vars

\* C4: paymentStatus becomes VERIFIED only from SUBMITTED, and SUBMITTED only
\* from PENDING.
C4_VerifiedOnlyFromSubmitted ==
    [][\A o \in DOMAIN orders :
         /\ (orders'[o].paymentStatus = "VERIFIED" /\ Status(o) # "VERIFIED")
               => Status(o) = "SUBMITTED"
         /\ (orders'[o].paymentStatus = "SUBMITTED" /\ Status(o) # "SUBMITTED")
               => Status(o) = "PENDING"]_vars

\* C5: in every state orderStatus is COMPLETED exactly when paymentStatus is
\* VERIFIED, and CANCELLED exactly when paymentStatus is FAILED.
C5_OrderStatusFollowsPayment ==
    \A o \in DOMAIN orders :
        /\ orders[o].orderStatus = "COMPLETED" <=> Status(o) = "VERIFIED"
        /\ orders[o].orderStatus = "CANCELLED" <=> Status(o) = "FAILED"

RECURSIVE ItemPriceSum(_)
ItemPriceSum(S) ==
    IF S = {} THEN 0
    ELSE LET i == CHOOSE x \in S : TRUE
         IN  items[i].productPrice + ItemPriceSum(S \ {i})

\* C6: in every state the totalAmount of every order is the sum of the
\* productPrice of its items, and no step changes the totalAmount, an item's
\* productPrice or the set of items of an order that exists.
C6_TotalIsSumOfItems ==
    /\ [](\A o \in DOMAIN orders : orders[o].totalAmount = ItemPriceSum(ItemsOf(o)))
    /\ [][\A o \in DOMAIN orders :
            /\ orders'[o].totalAmount = orders[o].totalAmount
            /\ {i \in DOMAIN items' : i[1] = o} = ItemsOf(o)
            /\ \A i \in ItemsOf(o) :
                 items'[i].productPrice = items[i].productPrice]_vars

\* An order of two items was totalled, verified and downloaded from.
C6_Witness ==
    \E o \in DOMAIN orders :
        /\ Cardinality(ItemsOf(o)) = 2
        /\ orders[o].totalAmount = SeedPrice("p1") + SeedPrice("p2")
        /\ Status(o) = "VERIFIED"
        /\ \E i \in ItemsOf(o) : items[i].downloadCount > 0

\* The item exists, its order belongs to the user and is VERIFIED.
Entitled(iid, u) ==
    /\ iid \in DOMAIN items
    /\ orders[iid[1]].userId = u
    /\ Status(iid[1]) = "VERIFIED"

\* This step changes a downloadCount, the download log or a product counter.
DownloadAccounted ==
    \/ \E i \in DOMAIN items : items'[i].downloadCount # items[i].downloadCount
    \/ downloadLog' # downloadLog
    \/ \E p \in Products : products'[p].downloadCount # products[p].downloadCount

\* C7: a download request of an authenticated user gets past the lookup only
\* if the item's order is the user's and VERIFIED at the lookup; otherwise it is
\* answered NotAvailable and nothing changes; and downloadCount, the download
\* log and the product counter change, and a URL is returned, only in a step
\* of a request that got past the lookup.
C7_GateOnOwnerAndVerified ==
    [][/\ \A r \in Slots :
            Begins(r, "download") =>
                Entitled(req'[r].arg.item, req'[r].caller)
       /\ (AnswersAtOnce("download") /\ out'.caller \in Users) =>
              /\ ~Entitled(out'.arg.item, out'.caller)
              /\ out'.code = "NotAvailable"
              /\ db' = db
       /\ (Answers("download") /\ out'.code = "NotAvailable") =>
              /\ AnswersAtOnce("download")
              /\ db' = db
       /\ (DownloadAccounted \/ (Answers("download") /\ out'.code = "Url")) =>
              \E r \in Slots : At(r, "download", "write") /\ req'[r] = Idle
      ]_vars

\* After a download was granted to its owner, another user asks for the same
\* item of the VERIFIED order and is told NotAvailable.
C7_Witness ==
    /\ out.kind = "download" /\ out.code = "NotAvailable" /\ out.caller = "u2"
    /\ out.arg.item \in DOMAIN items
    /\ Status(out.arg.item[1]) = "VERIFIED"
    /\ items[out.arg.item].downloadCount > 0

\* C8: verify and reject of a caller who is no admin are answered 401 or 403
\* with nothing written; only an admin's request runs those handlers, every
\* change of a paymentStatus to VERIFIED or FAILED, of an item's expiry and of
\* the admin log is a step of an admin's request, and every admin-log entry
\* names an admin.
C8_AdminOnly ==
    [][/\ \A k \in {"verify", "reject"} :
            (Answers(k) /\ ~IsAdmin(out'.caller)) =>
                /\ out'.code \in {"Unauthorized", "Forbidden"}
                /\ db' = db
       /\ \A r \in Slots :
            req'[r].kind \in {"verify", "reject"} => IsAdmin(req'[r].caller)
       /\ ( \/ adminLog' # adminLog
            \/ \E o \in DOMAIN orders :
                 /\ orders'[o].paymentStatus \in {"VERIFIED", "FAILED"}
                 /\ orders'[o] # orders[o]
            \/ \E i \in DOMAIN items : items'[i].expiresAt # items[i].expiresAt )
            => \E r \in Slots :
                 /\ StepOf(r, "verify") \/ StepOf(r, "reject")
                 /\ IsAdmin(req[r].caller) \/ IsAdmin(req'[r].caller)
       /\ \A k \in 1..Len(adminLog') : IsAdmin(adminLog'[k].adminId)
      ]_vars

\* A customer asked to verify an order that exists and was refused; the order
\* is as it was created.
C8_Witness ==
    /\ out.kind = "verify" /\ out.caller = "u2" /\ out.code = "Forbidden"
    /\ out.arg.order \in DOMAIN orders
    /\ Status(out.arg.order) \in {"PENDING", "SUBMITTED"}

Logged(o, action) ==
    Cardinality({k \in 1..Len(adminLog) :
                   adminLog[k].entityId = o /\ adminLog[k].action = action})

\* C9: of the verify calls on an order that was never rejected, at most one
\* succeeds.
C9_AtMostOneVerifySucceeds ==
    \A o \in DOMAIN orders :
        ( /\ Logged(o, "rejected_payment") = 0
          /\ \A r \in Slots : ~(req[r].kind = "reject" /\ req[r].arg.order = o) )
        => Logged(o, "verified_payment") <= 1

\* C10: verify of an admin on a missing order answers OrderNotFound, on a
\* VERIFIED order AlreadyVerified, both with nothing written, and runs
\* otherwise; a running verify writes VERIFIED, COMPLETED and paidAt = the
\* clock at the call, then writes to every item of the order one and the same
\* expiresAt = the clock after the order write + 7 days, and answers Verified
\* only when every item is written.
C10_VerifyContract ==
    [][/\ (AnswersAtOnce("verify") /\ IsAdmin(out'.caller)) =>
              /\ db' = db
              /\ \/ /\ out'.arg.order \notin DOMAIN orders
                    /\ out'.code = "OrderNotFound"
                 \/ /\ out'.arg.order \in DOMAIN orders
                    /\ Status(out'.arg.order) = "VERIFIED"
                    /\ out'.code = "AlreadyVerified"
       /\ \A r \in Slots :
            /\ Begins(r, "verify") =>
                 /\ req'[r].arg.order \in DOMAIN orders
                 /\ Status(req'[r].arg.order) # "VERIFIED"
                 /\ req'[r].loc.paidAt = now
                 /\ req'[r].loc.items = ItemsOf(req'[r].arg.order)
                 /\ db' = db
            /\ (req[r].kind = "verify" /\ req'[r] # req[r] /\ orders' # orders) =>
                 LET o == req[r].arg.order
                 IN  /\ orders'[o].paymentStatus = "VERIFIED"
                     /\ orders'[o].orderStatus = "COMPLETED"
                     /\ orders'[o].paidAt = req[r].loc.paidAt
                     /\ req'[r].loc.expiresAt = now + ExpiryDays
                     /\ req'[r].loc.items = req[r].loc.items
            /\ (req[r].kind = "verify" /\ req'[r] # req[r] /\ items' # items) =>
                 /\ req'[r].loc.expiresAt = req[r].loc.expiresAt
                 /\ \E i \in req[r].loc.items :
                      /\ items'[i].expiresAt = req[r].loc.expiresAt
                      /\ req'[r].loc.items = req[r].loc.items \ {i}
                      /\ \A j \in DOMAIN items \ {i} : items'[j] = items[j]
            /\ (req[r].kind = "verify" /\ req'[r] = Idle) =>
                 /\ out'.code = "Verified"
                 /\ req[r].loc.items = {}
                 /\ orders' = orders /\ items' = items
      ]_vars

\* A verify of a two-item order answered Verified after the clock had moved
\* between its call and its order write: both items expire 7 days after the
\* later instant.
C10_Witness ==
    /\ out.kind = "verify" /\ out.code = "Verified"
    /\ LET o == out.arg.order
       IN  /\ Cardinality(ItemsOf(o)) = 2
           /\ Status(o) = "VERIFIED" /\ orders[o].orderStatus = "COMPLETED"
           /\ orders[o].paidAt = 0
           /\ \A i \in ItemsOf(o) : items[i].expiresAt = 1 + ExpiryDays

\* Slot r makes the checks of a download request in this step.
ChecksDownload(r) == At(r, "download", "check") /\ req'[r] # req[r]
\* ... on an item that it read with an expiresAt that has passed by now.
ChecksExpired(r) ==
    /\ ChecksDownload(r)
    /\ req[r].loc.item.expiresAt # NoTime
    /\ now > req[r].loc.item.expiresAt

\* C11 as stated: every download request whose check is made later than the
\* item's expiresAt is answered LinkExpired and changes nothing.
C11_ExpiredIsLinkExpired ==
    [][\A r \in Slots :
         ChecksExpired(r) => (out'.code = "LinkExpired" /\ db' = db)]_vars

\* C11 amended: a download request whose check is made later than the
\* expiresAt it read changes nothing and is refused: with LinkExpired when the
\* downloadCount it read is below the downloadLimit, with LimitReached when it
\* is not; a check made no later than expiresAt does not answer LinkExpired.
C11_ExpiredNeverDownloads ==
    [][\A r \in Slots :
         /\ ChecksExpired(r) =>
               /\ db' = db
               /\ req'[r] = Idle
               /\ out'.code =
                    IF req[r].loc.item.downloadCount < req[r].loc.item.downloadLimit
                    THEN "LinkExpired" ELSE "LimitReached"
         /\ (ChecksDownload(r) /\ ~ChecksExpired(r)) => out'.code # "LinkExpired"
      ]_vars

\* Eight days after the verify that set expiresAt to its day + 7, a download
\* of an item that was downloaded once is refused with LinkExpired and the
\* count stays below the limit.
C11_Witness ==
    /\ out.kind = "download" /\ out.code = "LinkExpired"
    /\ LET item == items[out.arg.item]
       IN  /\ item.expiresAt = ExpiryDays
           /\ now = ExpiryDays + 1
           /\ item.downloadCount = 1

\* The order exists, is the user's and is PENDING.
OwnPending(o, u) ==
    o \in DOMAIN orders /\ orders[o].userId = u /\ Status(o) = "PENDING"

\* C12: a submit of an authenticated caller with a well-formed UTR gets past
\* the lookup only if the order exists, is the caller's and is PENDING; in
\* every other case it is answered OrderNotFound and nothing changes.  The
\* request that got past then stores its UTR, sets SUBMITTED and changes
\* nothing else; no other step changes a stored UTR; and no order ever returns
\* to PENDING, so a submit issued after one completed is refused.
C12_SubmitContract ==
    [][/\ \A r \in Slots :
            /\ Begins(r, "submit") =>
                 (OwnPending(req'[r].arg.order, req'[r].caller) /\ db' = db)
            /\ (req[r].kind = "submit" /\ req'[r] # req[r]) =>
                 LET o == req[r].arg.order
                 IN  /\ out'.code = "Submitted"
                     /\ orders' = [orders EXCEPT
                                     ![o].utrNumber = req[r].arg.utr,
                                     ![o].paymentStatus = "SUBMITTED"]
                     /\ UNCHANGED <<products, carts, items, downloadLog, adminLog>>
       /\ ( /\ AnswersAtOnce("submit")
            /\ out'.caller \in Users
            /\ submitUtrSchema(out'.arg.utr) ) =>
              /\ ~OwnPending(out'.arg.order, out'.caller)
              /\ out'.code = "OrderNotFound"
              /\ db' = db
       /\ \A o \in DOMAIN orders :
            /\ orders'[o].utrNumber # orders[o].utrNumber =>
                 \E r \in Slots : /\ At(r, "submit", "update")
                                  /\ req[r].arg.order = o
                                  /\ req'[r] = Idle
            /\ Status(o) # "PENDING" => orders'[o].paymentStatus # "PENDING"
      ]_vars

\* The owner submits again on the order whose UTR is stored and that is
\* SUBMITTED, and is told OrderNotFound.
C12_Witness ==
    /\ out.kind = "submit" /\ out.code = "OrderNotFound"
    /\ out.arg.order \in DOMAIN orders
    /\ LET o == orders[out.arg.order]
       IN  /\ o.userId = out.caller
           /\ o.paymentStatus = "SUBMITTED"
           /\ o.utrNumber = "UTR123456"
           /\ submitUtrSchema(out.arg.utr)

\* The order (of the item) that the request names exists and is the caller's.
Owns(u, kind, arg) ==
    IF kind = "download"
    THEN arg.item \in DOMAIN items /\ orders[arg.item[1]].userId = u
    ELSE arg.order \in DOMAIN orders /\ orders[arg.order].userId = u
\* The id that the request names does not exist.
Missing(kind, arg) ==
    IF kind = "download" THEN arg.item \notin DOMAIN items
    ELSE arg.order \notin DOMAIN orders
NotFoundCode(kind) == IF kind = "download" THEN "NotAvailable" ELSE "OrderNotFound"

\* C13: a submit (with a well-formed UTR), an order detail or a download of an
\* authenticated caller that names an id that does not exist, or one that
\* exists and is not the caller's, gets in both cases the same answer, the
\* not-found answer of the operation with no data, and changes nothing; only
\* requests on the caller's own orders get any other answer or run further,
\* so what a caller is answered depends on the caller's own orders alone.
C13_NoExistenceLeak ==
    [][\A k \in {"submit", "detail", "download"} :
         /\ ( /\ AnswersAtOnce(k)
              /\ out'.caller \in Users
              /\ k = "submit" => submitUtrSchema(out'.arg.utr)
              /\ ~Owns(out'.caller, k, out'.arg) ) =>
                /\ out' = [kind |-> k, caller |-> out'.caller, arg |-> out'.arg,
                           code |-> NotFoundCode(k), n |-> 0]
                /\ db' = db
         /\ (Answers(k) /\ out'.code \notin {NotFoundCode(k), "Unauthorized",
                                             "ValidationError"}) =>
                Owns(out'.caller, k, out'.arg)
         /\ \A r \in Slots :
              Begins(r, k) => Owns(req'[r].caller, k, req'[r].arg)
      ]_vars

\* Another user asks for the detail of an order that exists, was paid for and
\* verified, and gets the answer of an id that does not exist.
C13_Witness ==
    /\ out = [kind |-> "detail", caller |-> "u2", arg |-> [order |-> 1],
              code |-> "OrderNotFound", n |-> 0]
    /\ 1 \in DOMAIN orders
    /\ orders[1].userId = "u1"
    /\ Status(1) = "VERIFIED"

\* The same user asks for the detail of an id that does not exist.
C13_WitnessMissing ==
    /\ out = [kind |-> "detail", caller |-> "u2", arg |-> [order |-> 2],
              code |-> "OrderNotFound", n |-> 0]
    /\ 1 \in DOMAIN orders
    /\ 2 \notin DOMAIN orders

\* The ids of the user's cart (none when the key is absent).
CartIds(u) == SeqToSet(carts[CartKey(u)].ids)

\* The cart key is stored and holds the list ids.
Stores(cart, ids) == cart.present /\ cart.ids = ids
ActiveIn(S) == {p \in S : products[p].isActive}
\* Slot r runs a create order and this step is its step at pc.
CreateStep(r, pc) == At(r, "create", pc) /\ req'[r] # req[r]

\* C14: a create order of an authenticated caller is answered EmptyCart when
\* the caller's cart is absent or empty, and runs on with the cart's ids
\* otherwise; its product lookup answers NoValidProducts when none of those
\* ids is an active product at that moment, and goes on otherwise; in both
\* failures nothing is written, and an order or an item comes into being only
\* in the persist step of a create order.
C14_CreateOrderRefusals ==
    [][/\ (AnswersAtOnce("create") /\ out'.caller \in Users) =>
              /\ CartIds(out'.caller) = {}
              /\ out'.code = "EmptyCart"
              /\ db' = db
       /\ \A r \in Slots :
            /\ Begins(r, "create") =>
                 /\ CartIds(req'[r].caller) # {}
                 /\ req'[r].loc.ids = carts[CartKey(req'[r].caller)].ids
                 /\ db' = db
            /\ CreateStep(r, "find") =>
                 /\ db' = db
                 /\ IF ActiveIn(SeqToSet(req[r].loc.ids)) = {}
                    THEN req'[r] = Idle /\ out'.code = "NoValidProducts"
                    ELSE req'[r].pc = "persist"
       /\ (DOMAIN orders' # DOMAIN orders \/ DOMAIN items' # DOMAIN items) =>
              \E r \in Slots : CreateStep(r, "persist")
      ]_vars

\* Checkout of a cart whose only product was switched off after it was added:
\* NoValidProducts, no order, the cart as it was.
C14_Witness ==
    /\ out.kind = "create" /\ out.code = "NoValidProducts"
    /\ CartIds(out.caller) = {"p1"}
    /\ ~products["p1"].isActive
    /\ DOMAIN orders = {} /\ DOMAIN items = {}

\* Checkout with no cart key: EmptyCart.
C14_WitnessEmpty ==
    /\ out.kind = "create" /\ out.code = "EmptyCart" /\ out.caller = "u1"
    /\ ~carts[CartKey("u1")].present
    /\ DOMAIN orders = {}

\* C15: the product lookup of a create order keeps exactly the ids of the cart
\* it read that are active products at the lookup, each with its price at the
\* lookup; the persist step, when it succeeds, creates one order, PENDING with
\* no UTR, with exactly one item per product kept, and each item has
\* downloadLimit 5, downloadCount 0, no expiresAt and the price kept.
C15_ItemsOfActiveProducts ==
    [][\A r \in Slots :
         /\ (CreateStep(r, "find") /\ req'[r].pc = "persist") =>
               /\ DOMAIN req'[r].loc.found = ActiveIn(SeqToSet(req[r].loc.ids))
               /\ \A p \in DOMAIN req'[r].loc.found :
                    req'[r].loc.found[p] = products[p].price
         /\ (CreateStep(r, "persist") /\ orders' # orders) =>
               LET found == req[r].loc.found
                   o     == req'[r].loc.order
               IN  /\ DOMAIN orders' = DOMAIN orders \cup {o}
                   /\ o \notin DOMAIN orders
                   /\ orders'[o].userId = req[r].caller
                   /\ orders'[o].paymentStatus = "PENDING"
                   /\ orders'[o].utrNumber = NoUtr
                   /\ DOMAIN items' = DOMAIN items \cup {<<o, p>> : p \in DOMAIN found}
                   /\ \A p \in DOMAIN found :
                        /\ <<o, p>> \notin DOMAIN items
                        /\ items'[<<o, p>>].productId = p
                        /\ items'[<<o, p>>].productPrice = found[p]
                        /\ items'[<<o, p>>].downloadLimit = 5
                        /\ items'[<<o, p>>].downloadCount = 0
                        /\ items'[<<o, p>>].expiresAt = NoTime
      ]_vars

\* The cart holds p1 and p2, p2 was switched off and p1 repriced before the
\* checkout: the order that is stored (the cart not yet cleared) has the one
\* item p1 at the new price, and that is its total.
C15_Witness ==
    \E r \in Slots :
        /\ req[r].kind = "create" /\ req[r].pc = "clear"
        /\ CartIds(req[r].caller) = {"p1", "p2"}
        /\ ~products["p2"].isActive
        /\ LET o == req[r].loc.order
           IN  /\ ItemsOf(o) = {<<o, "p1">>}
               /\ items[<<o, "p1">>].productPrice = 99
               /\ orders[o].totalAmount = 99
               /\ Status(o) = "PENDING"

\* C16: a create order writes the cart in one step only, the clear, which it
\* reaches only with its order and the order's items stored; when the
\* persist step fails the request ends with ServerError and nothing is
\* written, the cart included.
C16_ClearOnlyAfterPersist ==
    [][\A r \in Slots :
         /\ (req[r].kind = "create" /\ req'[r] # req[r] /\ carts' # carts) =>
               /\ At(r, "create", "clear")
               /\ req[r].loc.order \in DOMAIN orders
               /\ ItemsOf(req[r].loc.order) # {}
               /\ out'.code = "Created"
         /\ (CreateStep(r, "persist") /\ orders' = orders) =>
               /\ out'.code = "ServerError"
               /\ db' = db
         /\ (CreateStep(r, "persist") /\ orders' # orders) => carts' = carts
      ]_vars

\* The order of a cart of two products could not be stored: ServerError, no
\* order, and the cart holds the two products.
C16_Witness ==
    /\ out.kind = "create" /\ out.code = "ServerError"
    /\ CartIds(out.caller) = {"p1", "p2"}
    /\ DOMAIN orders = {}

\* C17: no cart add is lost to a concurrent create order: when a create order
\* clears the cart, every product the cart holds at that moment is an item of
\* the order it created (no product is switched off in this specification).
C17_NoAddLostAtCheckout ==
    [][\A r \in Slots :
         (CreateStep(r, "clear") /\ out'.code = "Created") =>
             CartIds(req[r].caller) \subseteq
                 {i[2] : i \in ItemsOf(req[r].loc.order)}]_vars

\* C18: a reject of an admin on an order that exists is never refused,
\* whatever the order's state: its write leaves the order FAILED and
\* CANCELLED and changes nothing else, so on an order that is FAILED and
\* CANCELLED already it changes nothing at all; it then appends exactly one
\* rejected_payment entry for the order and answers Rejected.
C18_RejectIdempotent ==
    [][/\ (AnswersAtOnce("reject") /\ IsAdmin(out'.caller)) =>
              out'.arg.order \notin DOMAIN orders
       /\ \A r \in Slots :
            /\ Begins(r, "reject") =>
                 LET o == req'[r].arg.order
                 IN  /\ o \in DOMAIN orders
                     /\ orders' = [orders EXCEPT ![o].paymentStatus = "FAILED",
                                                 ![o].orderStatus = "CANCELLED"]
                     /\ (Status(o) = "FAILED" /\ orders[o].orderStatus = "CANCELLED")
                           => orders' = orders
                     /\ UNCHANGED <<products, carts, items, downloadLog, adminLog>>
            /\ (req[r].kind = "reject" /\ req'[r] # req[r]) =>
                 /\ out'.code = "Rejected"
                 /\ adminLog' = Append(adminLog,
                                       [adminId |-> req[r].caller,
                                        action |-> "rejected_payment",
                                        entityId |-> req[r].arg.order])
                 /\ UNCHANGED <<products, carts, orders, items, downloadLog>>
       /\ Len(adminLog') > Len(adminLog) =>
              \E r \in Slots : req[r].kind \in {"verify", "reject"} /\ req'[r] = Idle
      ]_vars

\* The second of two rejects of one order answers Rejected: the order is
\* FAILED and CANCELLED and the log holds two rejected_payment entries for it.
C18_Witness ==
    /\ out.kind = "reject" /\ out.code = "Rejected"
    /\ LET o == out.arg.order
       IN  /\ Status(o) = "FAILED" /\ orders[o].orderStatus = "CANCELLED"
           /\ Logged(o, "rejected_payment") = 2
           /\ Len(adminLog) = 2

\* This step answers a cart request of this kind with this code.
CartAnswer(kind, code) == Answers(kind) /\ out'.code = code
CartIdsAfter(u) == SeqToSet(carts'[CartKey(u)].ids)

\* C19: with calls that do not overlap, an add that succeeds leaves the
\* owner's cart holding what it held plus the product; a remove leaves it
\* holding what it held minus the product, and no key at all when that is
\* nothing; a get returns exactly the products of the cart (those that are
\* on sale) and changes nothing.  So after add(p1), add(p2) a get returns
\* {p1, p2}, after remove(p1) it returns {p2}, and after remove(p2) no key is
\* stored.
C19_CartRoundTrip ==
    [][/\ CartAnswer("cartadd", "Added") =>
              /\ carts'[CartKey(out'.caller)].present
              /\ CartIdsAfter(out'.caller) =
                     CartIds(out'.caller) \cup {out'.arg.product}
              /\ out'.n = Cardinality(CartIdsAfter(out'.caller))
       /\ CartAnswer("cartremove", "Removed") =>
              /\ CartIdsAfter(out'.caller) =
                     CartIds(out'.caller) \ {out'.arg.product}
              /\ carts'[CartKey(out'.caller)].present
                     <=> CartIdsAfter(out'.caller) # {}
              /\ out'.n = Cardinality(CartIdsAfter(out'.caller))
       /\ CartAnswer("cartget", "Cart") =>
              /\ out'.items = ActiveIn(CartIds(out'.caller))
              /\ carts' = carts
       /\ carts' # carts =>
              \/ Answers("cartadd") \/ Answers("cartremove")
              \/ Answers("cartclear")
      ]_vars

\* The last remove of the round trip: the cart held p2 alone, the remove of p2
\* answers count 0 and the owner's key is gone.
C19_Witness ==
    /\ out.kind = "cartremove" /\ out.code = "Removed" /\ out.n = 0
    /\ out.arg.product = "p2"
    /\ carts[CartKey(out.caller)] = NoCart

\* The get after the two adds.
C19_WitnessGet ==
    /\ out.kind = "cartget" /\ out.items = {"p1", "p2"} /\ out.n = 149 + 199
    /\ carts[CartKey(out.caller)].ids = <<"p1", "p2">>

NoDuplicates(ids) == Cardinality(SeqToSet(ids)) = Len(ids)

\* C20: no stored cart ever holds a product id twice, under any interleaving
\* of add, remove, clear and checkout; an add that finds its product in the
\* cart it read is answered DuplicateItem and writes nothing, and otherwise
\* stores the list it read with the product appended and answers the length
\* of that list.
C20_NoDuplicateInCart ==
    /\ [](\A k \in DOMAIN carts : NoDuplicates(carts[k].ids))
    /\ [][\A r \in Slots :
            /\ (At(r, "cartadd", "get") /\ req'[r] # req[r]) =>
                 LET p == req[r].arg.product
                 IN  /\ db' = db
                     /\ IF p \in CartIds(req[r].caller)
                        THEN req'[r] = Idle /\ out'.code = "DuplicateItem"
                        ELSE /\ req'[r].pc = "set"
                             /\ req'[r].loc.ids =
                                    Append(carts[CartKey(req[r].caller)].ids, p)
            /\ (At(r, "cartadd", "set") /\ req'[r] # req[r]) =>
                 /\ Stores(carts'[CartKey(req[r].caller)], req[r].loc.ids)
                 /\ out'.code = "Added"
                 /\ out'.n = Len(req[r].loc.ids)
          ]_vars

\* An add of p1 to a cart that holds p2 and p1 is answered DuplicateItem and
\* the cart holds p1 once.
C20_Witness ==
    /\ out.kind = "cartadd" /\ out.code = "DuplicateItem"
    /\ out.arg.product = "p1"
    /\ carts[CartKey(out.caller)].ids = <<"p2", "p1">>

\* C21: no cart key is ever stored with an empty list, and a remove of a
\* product that the cart does not hold (as after a first remove of it) leaves
\* every stored cart as it is: it stores the same list again, or finds no key
\* and answers CartEmpty without a write.
C21_RemoveIdempotent ==
    /\ [](\A k \in DOMAIN carts : carts[k].present => Len(carts[k].ids) > 0)
    /\ [][/\ \A r \in Slots :
               (Begins(r, "cartremove") \/ AnswersAtOnce("cartremove")) =>
                   carts' = carts
          /\ ( /\ Answers("cartremove")
               /\ out'.arg.product \notin CartIds(out'.caller) ) =>
                 /\ carts' = carts
                 /\ out'.code = IF carts[CartKey(out'.caller)].present
                                THEN "Removed" ELSE "CartEmpty"
          /\ CartAnswer("cartremove", "Removed") =>
                 out'.arg.product \notin CartIdsAfter(out'.caller)
         ]_vars

\* The second of two removes of p1 from a cart of p1 and p2: the cart holds
\* p2 as after the first.
C21_Witness ==
    /\ out.kind = "cartremove" /\ out.code = "Removed" /\ out.n = 1
    /\ out.arg.product = "p1"
    /\ Stores(carts[CartKey(out.caller)], <<"p2">>)

\* The second of two removes from a cart that the first one emptied: no key.
C21_WitnessEmptied ==
    /\ out.kind = "cartremove" /\ out.code = "CartEmpty"
    /\ carts[CartKey(out.caller)] = NoCart

\* Slot r commits the writes of a download and answers with the URL.
GrantsDownload(r) ==
    At(r, "download", "write") /\ req'[r] = Idle /\ out'.code = "Url"

\* C22: a download that succeeds increments the item's downloadCount by
\* exactly 1, appends exactly one download-log entry, increments the product's
\* counter by exactly 1, and returns as remainingDownloads the downloadLimit
\* minus the item's stored downloadCount after the increment.
C22_DownloadAccounting ==
    [][\A r \in Slots :
         GrantsDownload(r) =>
           LET i == req[r].arg.item
               p == items[i].productId
           IN  /\ items'[i].downloadCount = items[i].downloadCount + 1
               /\ Len(downloadLog') = Len(downloadLog) + 1
               /\ products'[p].downloadCount = products[p].downloadCount + 1
               /\ out'.n = items'[i].downloadLimit - items'[i].downloadCount
      ]_vars

\* C23: a download returns the URL exactly when its downloadCount increment
\* is committed; in particular the failure of the download-log write alone
\* does not keep the URL from the caller.
C23_UrlIffCounted ==
    [][\A r \in Slots :
         (At(r, "download", "write") /\ req'[r] = Idle) =>
            LET i == req[r].arg.item
            IN  (out'.code = "Url") <=>
                   (items'[i].downloadCount = items[i].downloadCount + 1)
      ]_vars

\* C24: when an item update of a verify fails, the caller is told so
\* (ServerError) and the order, VERIFIED by then, is left as it is; a verify
\* answers Verified only when every item of the order has its expiresAt.
C24_VerifyItemFailure ==
    [][\A r \in Slots :
         (req[r].kind = "verify" /\ req'[r] = Idle) =>
            LET o == req[r].arg.order
            IN  /\ orders' = orders
                /\ Status(o) = "VERIFIED"
                /\ out'.code \in {"Verified", "ServerError"}
                /\ out'.code = "Verified" =>
                      \A i \in ItemsOf(o) : items'[i].expiresAt # NoTime
                /\ (\E i \in ItemsOf(o) : items'[i].expiresAt = NoTime) =>
                      (out'.code = "ServerError" /\ adminLog' = adminLog)
      ]_vars

\* The update of one of two items failed: the admin is told the verify
\* failed, the order is VERIFIED, one item has its expiresAt and one has not.
C24_Witness ==
    /\ out.kind = "verify" /\ out.code = "ServerError"
    /\ LET o == out.arg.order
       IN  /\ Status(o) = "VERIFIED"
           /\ \E i \in ItemsOf(o) : items[i].expiresAt # NoTime
           /\ \E i \in ItemsOf(o) : items[i].expiresAt = NoTime

\* C25: no step of a submit, a verify or a reject changes the downloadCount of
\* an item; no step of a download changes an order (paymentStatus,
\* orderStatus, utrNumber, paidAt) or the expiresAt of an item; no step of a
\* reject changes an item at all.
C25_WriterSeparation ==
    [][\A r \in Slots :
         /\ (StepOf(r, "submit") \/ StepOf(r, "verify") \/ StepOf(r, "reject")) =>
               /\ DOMAIN items' = DOMAIN items
               /\ \A i \in DOMAIN items :
                    items'[i].downloadCount = items[i].downloadCount
         /\ StepOf(r, "download") =>
               /\ orders' = orders
               /\ DOMAIN items' = DOMAIN items
               /\ \A i \in DOMAIN items :
                    items'[i].expiresAt = items[i].expiresAt
         /\ StepOf(r, "reject") => items' = items
      ]_vars

\* An order whose item was downloaded from is rejected: the item keeps its
\* count, its limit and its expiresAt.
C25_Witness ==
    /\ out.kind = "reject" /\ out.code = "Rejected"
    /\ LET o == out.arg.order
       IN  /\ Status(o) = "FAILED"
           /\ \E i \in ItemsOf(o) :
                /\ items[i].downloadCount = 1
                /\ items[i].downloadLimit = 5
                /\ items[i].expiresAt # NoTime
                /\ items[i].downloadUrl

\* The item has been downloaded as often as its limit allows.
Exhausted(item) == item.downloadCount >= item.downloadLimit

\* C26: the downloadLimit of an item stays 5 and its downloadCount never
\* decreases; and a download request of the order's owner that starts when
\* the item is exhausted is answered LimitReached and changes nothing.
C26_ExhaustedIsTerminal ==
    [][/\ \A i \in DOMAIN items :
            /\ items'[i].downloadLimit = 5
            /\ items'[i].downloadCount >= items[i].downloadCount
       /\ ( /\ AnswersAtOnce("download")
            /\ out'.arg.item \in DOMAIN items
            /\ out'.caller = orders[out'.arg.item[1]].userId
            /\ Exhausted(items[out'.arg.item]) ) =>
              out'.code = "LimitReached"
       /\ \A r \in Slots :
            (ChecksDownload(r) /\ Exhausted(req[r].loc.item)) =>
                (out'.code = "LimitReached" /\ db' = db)
      ]_vars

\* C27: once the expiresAt of an item is set it is never changed, and a
\* download that read an expiresAt that has passed when it makes its check is
\* not granted; so no download succeeds once the expiresAt has passed.
C27_ExpiredIsTerminal ==
    [][/\ \A i \in DOMAIN items :
            items[i].expiresAt # NoTime =>
                items'[i].expiresAt = items[i].expiresAt
       /\ \A r \in Slots : ChecksExpired(r) => req'[r] = Idle
      ]_vars

\* C28: every download that is granted is for an item that the request read
\* with its expiresAt set: none is granted for an item that is not activated.
C28_NoDownloadOfInactive ==
    [][\A r \in Slots :
         GrantsDownload(r) => req[r].loc.item.expiresAt # NoTime]_vars

\* C29: viewing an order changes nothing stored; the view of an order that is
\* found shows the order as stored, with a payment request exactly when its
\* paymentStatus is PENDING, and that request carries the order's stored
\* totalAmount and its number: it is a function of the stored order.
C29_ViewIsPure ==
    [][Answers("detail") =>
         /\ db' = db
         /\ out'.code \notin {"Unauthorized", "OrderNotFound"} =>
               LET oid == out'.arg.order
               IN  /\ out'.code = Status(oid)
                   /\ out'.n = orders[oid].totalAmount
                   /\ out'.payment =
                        IF Status(oid) = "PENDING"
                        THEN [amount |-> orders[oid].totalAmount, orderId |-> oid]
                        ELSE NoPayment
      ]_vars

\* The owner views the order of p1 and p2 before paying: the payment request
\* is for 348 and order 1.
C29_Witness ==
    /\ out.kind = "detail" /\ out.code = "PENDING"
    /\ out.payment = [amount |-> 149 + 199, orderId |-> 1]
    /\ Status(1) = "PENDING"

\* The owner views the order after the UTR was submitted: no payment request.
C29_WitnessSubmitted ==
    /\ out.kind = "detail" /\ out.code = "SUBMITTED"
    /\ out.payment = NoPayment

\* The cart key the owner rule gives a client: the user's, else the
\* session's, else the anonymous one.
ExpectedKey(user, session) ==
    IF user \in Users THEN <<"user", user>>
    ELSE IF session \in Sessions THEN <<"session", session>>
    ELSE <<"session", "anonymous">>

CartKinds == {"cartadd", "cartremove", "cartclear", "cartget"}

\* The request that takes this step: the one in the slot that changes, or
\* the one answered without ever holding a slot.
Acting ==
    IF \E r \in Slots : req'[r] # req[r]
    THEN LET r == CHOOSE q \in Slots : req'[q] # req[q]
         IN  IF req[r].kind = "idle" THEN req'[r] ELSE req[r]
    ELSE out'

\* Every cart but the one under key k is left as it was.
OnlyTouches(k) == \A j \in DOMAIN carts \ {k} : carts'[j] = carts[j]

\* C30: a cart operation of an authenticated user works on cart:user:<id>
\* even when a session id is sent too, one of an unauthenticated client on
\* cart:session:<session id>, or on cart:session:anonymous without a session
\* id; it reads and writes that key only.  Creating an order reads and clears
\* only cart:user:<id>.  So no operation carries a session cart into a user
\* cart.
C30_CartOwnerIsolation ==
    [][out = NoResp =>
        LET q == Acting
        IN  /\ q.kind \in CartKinds =>
                 LET k   == ExpectedKey(q.caller, q.arg.session)
                     ids == carts[k].ids
                 IN  /\ OnlyTouches(k)
                     /\ q.kind = "cartclear" => carts'[k] = NoCart
                     /\ AnswersAtOnce("cartremove") =>
                            ~carts[k].present /\ carts' = carts
                     /\ AnswersAtOnce("cartget") =>
                            ids = <<>> /\ carts' = carts
                     /\ \A r \in Slots :
                          /\ Begins(r, "cartremove") =>
                               /\ carts[k].present
                               /\ SeqToSet(req'[r].loc.ids) =
                                      SeqToSet(ids) \ {q.arg.product}
                          /\ Begins(r, "cartget") => req'[r].loc.ids = ids
                          /\ (req[r].kind = "cartadd" /\ req[r].pc = "get") =>
                               IF q.arg.product \in SeqToSet(ids)
                               THEN out'.code = "DuplicateItem"
                               ELSE req'[r].loc.ids = Append(ids, q.arg.product)
                          /\ (req[r].kind = "cartadd" /\ req[r].pc = "set") =>
                               Stores(carts'[k], req[r].loc.ids)
                          /\ (req[r].kind = "cartremove" /\ req[r].pc = "write") =>
                               carts'[k].ids = req[r].loc.ids
            /\ q.kind = "create" =>
                 LET k == <<"user", q.caller>>
                 IN  /\ OnlyTouches(k)
                     /\ carts' # carts => carts'[k] = NoCart
                     /\ (AnswersAtOnce("create") /\ out'.code = "EmptyCart") =>
                            carts[k].ids = <<>>
                     /\ \A r \in Slots :
                          Begins(r, "create") => req'[r].loc.ids = carts[k].ids
    ]_vars

\* u1, signed in and sending session id s1, has added p1: it is in u1's cart,
\* and the cart of session s1 and the anonymous cart hold what they held.
C30_Witness ==
    /\ out.kind = "cartadd" /\ out.code = "Added"
    /\ out.caller = "u1" /\ out.arg.session = "s1"
    /\ carts[<<"user", "u1">>].ids = <<"p1">>
    /\ carts[<<"session", "s1">>].ids = <<"p2">>
    /\ carts[<<"session", "anonymous">>].ids = <<"p2", "p1">>

\* u1's order is created: u1's cart is cleared, the session carts are not.
C30_WitnessCheckout ==
    /\ out.kind = "create" /\ out.code = "Created" /\ out.caller = "u1"
    /\ carts[<<"user", "u1">>] = NoCart
    /\ carts[<<"session", "s1">>].present
    /\ carts[<<"session", "anonymous">>].present

\* A client without a token and without a session id has added p2 to the
\* anonymous cart.
C30_WitnessAnonymous ==
    /\ out.kind = "cartadd" /\ out.code = "Added"
    /\ out.caller = NoUser /\ out.arg.session = NoSession
    /\ carts[<<"session", "anonymous">>].ids = <<"p2">>
    /\ ~carts[<<"user", "u1">>].present /\ ~carts[<<"session", "s1">>].present

\* C31: an add, and a remove that leaves the cart non-empty, set the key's
\* time-to-live to 604800 seconds (7 days of the clock); nothing else moves
\* the expiry time of a key, a get changes nothing; a stored key has not
\* reached its expiry time, so 7 days after its last mutation it is gone: a
\* get then answers the empty cart and a checkout answers EmptyCart.
C31_CartTtl ==
    /\ [](\A k \in DOMAIN carts :
            carts[k].present =>
                now < carts[k].exp /\ carts[k].exp <= now + 604800 \div 86400)
    /\ [][/\ \A r \in Slots :
               LET k == CartKey(req[r].caller)
               IN  /\ (At(r, "cartadd", "set") /\ req'[r] # req[r]) =>
                         carts'[k].exp = now + 604800 \div 86400
                   /\ ( /\ At(r, "cartremove", "write") /\ req'[r] # req[r]
                        /\ req[r].loc.ids # <<>> ) =>
                         carts'[k].exp = now + 604800 \div 86400
                   /\ StepOf(r, "cartget") => carts' = carts
                   /\ Begins(r, "cartget") =>
                         carts[CartKey(req'[r].caller)].present
                   /\ Begins(r, "create") =>
                         carts[CartKey(req'[r].caller)].present
          /\ AnswersAtOnce("cartget") =>
                 carts' = carts /\ out'.items = {} /\ out'.n = 0
          /\ \A k \in DOMAIN carts :
                 ( /\ carts[k].present /\ carts'[k].present
                   /\ carts'[k].exp # carts[k].exp ) =>
                     Answers("cartadd") \/ Answers("cartremove")
          /\ \A u \in Buyers :
                 (~carts[CartKey(u)].present /\ Answers("create")
                     /\ out'.caller = u /\ req' = req) =>
                     out'.code = "EmptyCart"
         ]_vars

\* u1's cart held p1 when a get read it and has expired since: a checkout of
\* u1 is refused with EmptyCart.
C31_Witness ==
    /\ req[1].kind = "cartget" /\ req[1].pc = "find"
    /\ req[1].loc.ids = <<"p1">>
    /\ now >= 604800 \div 86400
    /\ carts[CartKey("u1")] = NoCart
    /\ out.kind = "create" /\ out.code = "EmptyCart" /\ out.caller = "u1"

\* A remove on day 1 that left p2 in the cart: the key now expires on day 8.
C31_WitnessReset ==
    /\ out.kind = "cartremove" /\ out.code = "Removed"
    /\ now = 1
    /\ Stores(carts[CartKey(out.caller)], <<"p2">>)
    /\ carts[CartKey(out.caller)].exp = 1 + 604800 \div 86400

\* A get on day 1 of a cart filled on day 0: the key still expires on day 7.
C31_WitnessGet ==
    /\ out.kind = "cartget" /\ out.code = "Cart" /\ out.items = {"p1"}
    /\ now = 1
    /\ carts[CartKey(out.caller)].exp = 604800 \div 86400

\* User u can be given item i now: the item is of a verified order of u, is
\* below its limit and has not expired.
Downloadable(its, ords, i, u) ==
    /\ ords[i[1]].userId = u /\ ords[i[1]].paymentStatus = "VERIFIED"
    /\ its[i].downloadCount < its[i].downloadLimit
    /\ ~(its[i].expiresAt # NoTime /\ now > its[i].expiresAt)

\* C32: changing a product's price or title, or deactivating it, after an
\* order was created changes neither the order's totalAmount nor its items'
\* productPrice and productTitle, nor whether the items can be downloaded;
\* the amounts and the copies taken at creation never change at all.
C32_SnapshotStable ==
    [][/\ \A r \in Slots :
            (At(r, "product", "update") /\ req'[r] # req[r]) =>
                /\ orders' = orders /\ items' = items
                /\ \A i \in DOMAIN items, u \in Users :
                      Downloadable(items', orders', i, u)
                          <=> Downloadable(items, orders, i, u)
       /\ \A o \in DOMAIN orders :
            orders'[o].totalAmount = orders[o].totalAmount
       /\ \A i \in DOMAIN items :
            /\ items'[i].productPrice = items[i].productPrice
            /\ items'[i].productTitle = items[i].productTitle
      ]_vars

\* p1 was sold at 149 in an order of 348 and is repriced to 99 afterwards:
\* the item and the total keep the amounts of the sale.
C32_Witness ==
    /\ out.kind = "product" /\ out.code = "Updated"
    /\ out.arg.product = "p1" /\ out.arg.data = [price |-> 99]
    /\ products["p1"].price = 99
    /\ <<1, "p1">> \in DOMAIN items
    /\ items[<<1, "p1">>].productPrice = 149
    /\ orders[1].totalAmount = 348

\* p1 was sold under its first title and is renamed afterwards.
C32_WitnessTitle ==
    /\ out.kind = "product" /\ out.code = "Updated"
    /\ out.arg.product = "p1" /\ "title" \in DOMAIN out.arg.data
    /\ products["p1"].title # SeedTitle("p1")
    /\ <<1, "p1">> \in DOMAIN items
    /\ items[<<1, "p1">>].productTitle = SeedTitle("p1")

\* p1 is deactivated after the sale and the buyer still downloads it.
C32_WitnessDeactivated ==
    /\ out.kind = "download" /\ out.code = "Url"
    /\ out.arg.item = <<1, "p1">>
    /\ ~products["p1"].isActive

\* C33: a submit of a signed-in user with a UTR shorter than 5 or longer than
\* 50 characters is answered with a validation error at once, whatever the
\* order is, and changes nothing; a UTR of 5 to 50 characters is never
\* answered with a validation error and is the only kind that reaches the
\* order.
C33_UtrLength ==
    [][/\ (Answers("submit") /\ out'.caller \in Users) =>
            LET n == Len(out'.arg.utr)
            IN  IF n < 5 \/ n > 50
                THEN out'.code = "ValidationError" /\ req' = req /\ db' = db
                ELSE out'.code # "ValidationError"
       /\ \A r \in Slots :
            Begins(r, "submit") =>
                Len(req'[r].arg.utr) >= 5 /\ Len(req'[r].arg.utr) <= 50
       /\ \A o \in DOMAIN orders :
            (o \in DOMAIN orders' /\ orders'[o].utrNumber # orders[o].utrNumber) =>
                /\ Len(orders'[o].utrNumber) >= 5
                /\ Len(orders'[o].utrNumber) <= 50
      ]_vars

\* A UTR of 51 characters for the caller's own pending order is rejected.
C33_Witness ==
    /\ out.kind = "submit" /\ out.code = "ValidationError"
    /\ Len(out.arg.utr) = 51
    /\ out.arg.order \in DOMAIN orders
    /\ orders[out.arg.order].userId = out.caller
    /\ orders[out.arg.order].paymentStatus = "PENDING"

\* A UTR of 4 characters for the caller's own pending order is rejected.
C33_WitnessShort ==
    /\ out.kind = "submit" /\ out.code = "ValidationError"
    /\ Len(out.arg.utr) = 4
    /\ out.arg.order \in DOMAIN orders
    /\ orders[out.arg.order].userId = out.caller
    /\ orders[out.arg.order].paymentStatus = "PENDING"

\* A UTR of 50 characters is stored.
C33_WitnessLongest ==
    /\ out.kind = "submit" /\ out.code = "Submitted"
    /\ Len(orders[out.arg.order].utrNumber) = 50

\* A UTR of 5 characters is stored.
C33_WitnessShortest ==
    /\ out.kind = "submit" /\ out.code = "Submitted"
    /\ Len(orders[out.arg.order].utrNumber) = 5

\* C34: two create-order calls of one user that overlap on the same cart
\* contents create at most one order: no call stores an order with a product
\* while another call of the user, still on its way to clearing the cart,
\* has stored an order with that product.
C34_OneOrderPerCart ==
    [][\A r \in Slots :
          (At(r, "create", "persist") /\ orders' # orders) =>
              \A q \in Slots \ {r} :
                  ~ /\ req[q].kind = "create" /\ req[q].pc = "clear"
                    /\ req[q].caller = req[r].caller
                    /\ \E p \in DOMAIN req[r].loc.found :
                          <<req[q].loc.order, p>> \in DOMAIN items
      ]_vars

\* C35: no update of a cart is lost when adds and removes on its key overlap:
\* the write of an add leaves in the stored cart everything that is stored
\* plus its product, and the write of a remove everything that is stored but
\* its product.
C35_NoLostCartUpdate ==
    [][\A r \in Slots :
          LET k == CartKey(req[r].caller)
              p == req[r].arg.product
          IN  /\ (At(r, "cartadd", "set") /\ req'[r] # req[r]) =>
                    SeqToSet(carts'[k].ids) = SeqToSet(carts[k].ids) \cup {p}
              /\ (At(r, "cartremove", "write") /\ req'[r] # req[r]) =>
                    SeqToSet(carts'[k].ids) = SeqToSet(carts[k].ids) \ {p}
      ]_vars

\* The sum of downloadCount over the items in the set is.
RECURSIVE CountSum(_)
CountSum(is) ==
    IF is = {} THEN 0
    ELSE LET i == CHOOSE j \in is : TRUE
         IN  items[i].downloadCount + CountSum(is \ {i})

\* C36: whenever no download request is in flight, each item's downloadCount
\* is the number of download-log entries of the item, and each product's
\* download counter is the sum of downloadCount over the order items of the
\* product, also after a request in which one of the three writes failed.
C36_AccountingConsistent ==
    (\A r \in Slots : req[r].kind # "download") =>
        /\ \A i \in DOMAIN items :
              items[i].downloadCount =
                  Cardinality({n \in 1..Len(downloadLog) :
                                  downloadLog[n].orderItemId = i})
        /\ \A p \in Products :
              products[p].downloadCount =
                  CountSum({i \in DOMAIN items : items[i].productId = p})

\* C37: at most one submit succeeds per order, also when two overlap: a UTR
\* stored on an order is never replaced, and a submit writes only to an order
\* that is PENDING at the time of the write.
C37_OneSubmitPerOrder ==
    [][/\ \A o \in DOMAIN orders :
            orders[o].utrNumber # NoUtr =>
                orders'[o].utrNumber = orders[o].utrNumber
       /\ \A r \in Slots :
            (At(r, "submit", "update") /\ req'[r] # req[r]) =>
                Status(req[r].arg.order) = "PENDING"
      ]_vars

\* C38: a create-order call that reports failure has stored no order and no
\* order item, and one that reports success has stored its order and left
\* the caller's cart cleared.
C38_CreateAllOrNothing ==
    [][\A r \in Slots :
          (req[r].kind = "create" /\ req'[r] = Idle) =>
              IF out'.code = "Created"
              THEN /\ out'.n \in DOMAIN orders'
                   /\ carts'[CartKey(req[r].caller)] = NoCart
              ELSE /\ req[r].pc # "clear"
                   /\ orders' = orders /\ items' = items
      ]_vars

====
